---- MODULE Spec2Model ----
(***************************************************************************)
(* A model of the resource pool of ts-pool (src/src/index.ts, class Pool,  *)
(* lines 436-706).  The pool is single threaded: every handler below is    *)
(* one synchronous section of the JavaScript code, and the actions         *)
(* interleave only where the code suspends (factory and destructor         *)
(* completions, promise continuations, timers).                            *)
(***************************************************************************)
EXTENDS Integers, Sequences, FiniteSets

\* ---------------------------------------------------------------- bounds
\* borrow() calls made by the callers
MaxBorrows == 2
\* create() calls made by the pool
MaxCreates == 2
\* destroy() calls made by the callers
MaxDestroys == 2

Max(a, b) == IF a > b THEN a ELSE b
Min(a, b) == IF a < b THEN a ELSE b

Resources == 1..MaxCreates
CallIds   == 1..MaxBorrows

\* The configurations a pool is constructed with (Options, lines 304-350),
\* and whether the caller's create() can fail.  0 stands for an option that
\* is not given (undefined); every option that is given is a positive integer.
Plain == [ minResources |-> 0, maxResources |-> 2, resourceMaxAge |-> 0,
           maxOutstandingBorrows |-> 0, syncInterval |-> 0,
           factoryFails |-> FALSE ]

OptionSets ==
  { Plain,
    [Plain EXCEPT !.maxResources = 1],
    [Plain EXCEPT !.minResources = 1, !.syncInterval = 1],
    [Plain EXCEPT !.minResources = 2],
    [Plain EXCEPT !.resourceMaxAge = 1],
    [Plain EXCEPT !.maxOutstandingBorrows = 1],
    [Plain EXCEPT !.factoryFails = TRUE] }

VARIABLES
  opts,                 \* this.options, and whether the caller's factory may fail
  isDestroying,         \* this.isDestroying
  knownResources,       \* this.knownResources: resource -> its age,
                        \*   Date.now() - info.created (see Tick)
  availableResources,   \* this.availableResources
  outstandingBorrows,   \* this.outstandingBorrows: the queued futures, by call id
  syncTimeout,          \* the setInterval timer is armed
  syncing,              \* this.syncing is a promise (truthy)
  startTimer,           \* the constructor's setTimeout(..., 0) is pending
  passes,               \* the sync passes whose promise chains are pending
  calls,                \* one record per borrow() call: what the caller sees
  hooks,                \* how often each instrumentation hook has run
  disposeCalls,         \* resource -> number of dispose(rsc) invocations
  createCalls,          \* number of create() invocations
  created,              \* number of resources the factory has delivered
  removed,              \* resources remove() has been called on
  destroyCalls,         \* per destroy() call: destructor calls it still awaits
  destroyed,            \* resources a destroy() call invoked the destructor on
  observed              \* borrow() calls made when sync() last read the queue

vars == << opts, isDestroying, knownResources, availableResources,
           outstandingBorrows, syncTimeout, syncing, startTimer, passes,
           calls, hooks, disposeCalls, createCalls, created, removed,
           destroyCalls, destroyed, observed >>

\* ------------------------------------------------------------ the heap
\* The fields the private helpers read and write, passed as one record so
\* that a handler composes its helpers in the order the code calls them.
Heap == [ known |-> knownResources, avail |-> availableResources,
          queue |-> outstandingBorrows, calls |-> calls, hooks |-> hooks,
          disp |-> disposeCalls ]

SetHeap(h) ==
  /\ knownResources' = h.known
  /\ availableResources' = h.avail
  /\ outstandingBorrows' = h.queue
  /\ calls' = h.calls
  /\ hooks' = h.hooks
  /\ disposeCalls' = h.disp

Size(f) == Cardinality(DOMAIN f)

\* Array.prototype.indexOf: the 0-based index of the first x in s, else -1.
RECURSIVE IndexFrom(_, _, _)
IndexFrom(s, x, i) ==
  IF i > Len(s) THEN -1
  ELSE IF s[i] = x THEN i - 1 ELSE IndexFrom(s, x, i + 1)
indexOf(s, x) == IndexFrom(s, x, 1)

\* Array.prototype.splice(start, count) as it changes the array: a negative
\* start counts from the end, and the range is clamped to the array.
spliceRest(s, start, count) ==
  LET from == IF start < 0 THEN Max(Len(s) + start, 0) ELSE Min(start, Len(s))
      n    == Max(Min(count, Len(s) - from), 0)
  IN  SubSeq(s, 1, from) \o SubSeq(s, from + n + 1, Len(s))

\* ... and the elements splice(start, count) returns.
spliceTaken(s, start, count) ==
  LET from == IF start < 0 THEN Max(Len(s) + start, 0) ELSE Min(start, Len(s))
      n    == Max(Min(count, Len(s) - from), 0)
  IN  SubSeq(s, from + 1, from + n)

\* Array.prototype.slice(start, end) returns a copy; the array is unchanged.
sliceKeeps(s, start, end) == s

\* Deferred.resolve / Deferred.reject, and the reject of the timeout promise:
\* a promise settles once, later settlements are ignored.
settle(h, id, st, rsc) ==
  IF h.calls[id].st = "pending"
  THEN [h EXCEPT !.calls[id].st = st, !.calls[id].rsc = rsc]
  ELSE h

\* ------------------------------------------------------ private helpers
\* resourceIsExpired with >= for >.
resourceIsExpiredInclusive(h, rsc) ==
  IF rsc \notin DOMAIN h.known THEN "unknown"
  ELSE IF opts.resourceMaxAge # 0 /\ h.known[rsc] >= opts.resourceMaxAge
       THEN "expired" ELSE "fresh"

\* resourceIsExpired: "unknown" when the code throws UnknownResourceError.
resourceIsExpired(h, rsc) ==
  IF rsc \notin DOMAIN h.known THEN "unknown"
  ELSE IF opts.resourceMaxAge # 0 /\ h.known[rsc] > opts.resourceMaxAge
       THEN "expired" ELSE "fresh"

\* removeResource: forgets the resource and invokes the destructor.
removeResource(h, rsc) ==
  LET h1  == [h EXCEPT !.known = [r \in DOMAIN h.known \ {rsc} |-> h.known[r]]]
      idx == indexOf(h1.avail, rsc)
      h2  == IF idx > -1
             THEN [h1 EXCEPT !.avail = sliceKeeps(h1.avail, idx, 1)]
             ELSE h1
  IN  [h2 EXCEPT !.disp[rsc] = @ + 1]

\* maybeLendResource lending the resource and parking it as idle as well.
maybeLendResourceAlsoIdle(h, rsc) ==
  IF h.queue = << >>
  THEN [h EXCEPT !.avail = Append(@, rsc)]
  ELSE settle([h EXCEPT !.queue = Tail(@), !.avail = Append(@, rsc),
                        !.hooks.onRequestDequeued = @ + 1,
                        !.hooks.onBorrow = @ + 1],
              Head(h.queue), "resolved", rsc)

\* maybeLendResource with pop() for shift(): the newest request is served.
maybeLendResourceNewest(h, rsc) ==
  IF h.queue = << >>
  THEN [h EXCEPT !.avail = Append(@, rsc)]
  ELSE settle([h EXCEPT !.queue = SubSeq(@, 1, Len(@) - 1),
                        !.hooks.onRequestDequeued = @ + 1,
                        !.hooks.onBorrow = @ + 1],
              h.queue[Len(h.queue)], "resolved", rsc)

\* maybeLendResource: the head of the queue gets the resource, else it is idle.
maybeLendResource(h, rsc) ==
  IF h.queue = << >>
  THEN [h EXCEPT !.avail = Append(@, rsc)]
  ELSE LET deferred == Head(h.queue)
           h1 == [h EXCEPT !.queue = Tail(@),
                           !.hooks.onRequestDequeued = @ + 1,
                           !.hooks.onBorrow = @ + 1]
       IN  settle(h1, deferred, "resolved", rsc)

\* addResource: registers a resource the factory delivered.
addResource(h, rsc) ==
  maybeLendResource(
    [h EXCEPT !.known = [r \in DOMAIN h.known \cup {rsc} |->
                           IF r = rsc THEN 0 ELSE h.known[r]]], rsc)

\* returnResource parking the resource as idle without looking at the queue.
returnResourceIdleOnly(h, rsc) ==
  IF rsc \notin DOMAIN h.known THEN h
  ELSE [h EXCEPT !.hooks.onRelease = @ + 1, !.avail = Append(@, rsc)]

\* returnResource without the check that the resource is known.
returnResourceUnchecked(h, rsc) ==
  maybeLendResource([h EXCEPT !.hooks.onRelease = @ + 1], rsc)

\* returnResource without the branch for a resource that has aged out.
returnResourceNoExpiry(h, rsc) ==
  IF rsc \notin DOMAIN h.known THEN h
  ELSE maybeLendResource([h EXCEPT !.hooks.onRelease = @ + 1], rsc)

\* returnResource: nothing happens when the code throws UnknownResourceError.
returnResource(h, rsc) ==
  IF rsc \notin DOMAIN h.known THEN h
  ELSE LET h1 == [h EXCEPT !.hooks.onRelease = @ + 1]
       IN  IF opts.resourceMaxAge # 0 /\ h.known[rsc] > opts.resourceMaxAge
           THEN removeResource(h1, rsc)
           ELSE maybeLendResource(h1, rsc)

\* ------------------------------------------------------------ sync pass
\* The expiry step with a filter callback that keeps every resource: the
\* expired ones are disposed and stay idle.
RECURSIVE expireScanKeepsAll(_, _, _, _)
expireScanKeepsAll(h, i, kept, n) ==
  IF i > Len(h.avail) THEN [h |-> h, kept |-> kept, n |-> n, threw |-> FALSE]
  ELSE LET rsc == h.avail[i]
           e   == resourceIsExpired(h, rsc)
       IN  IF e = "unknown"
           THEN [h |-> h, kept |-> kept, n |-> n, threw |-> TRUE]
           ELSE IF e = "expired"
           THEN expireScanKeepsAll(removeResource(h, rsc), i + 1,
                                   Append(kept, rsc), n + 1)
           ELSE expireScanKeepsAll(h, i + 1, Append(kept, rsc), n)

\* The filter callback of the expiry step, applied to availableResources[i..]:
\* kept are the resources the filter keeps, n the destructor calls pushed to
\* promises, threw says that resourceIsExpired threw (the array is then not
\* assigned and nothing awaits the destructor calls already made).
RECURSIVE expireScan(_, _, _, _)
expireScan(h, i, kept, n) ==
  IF i > Len(h.avail) THEN [h |-> h, kept |-> kept, n |-> n, threw |-> FALSE]
  ELSE LET rsc == h.avail[i]
           e   == resourceIsExpired(h, rsc)
       IN  IF e = "unknown"
           THEN [h |-> h, kept |-> kept, n |-> n, threw |-> TRUE]
           ELSE IF e = "expired"
           THEN expireScan(removeResource(h, rsc), i + 1, kept, n + 1)
           ELSE expireScan(h, i + 1, Append(kept, rsc), n)

\* The creation step without the lower bound minResources.
toCreateNoMin(currentSize, deficit) ==
  Max(Min(currentSize + deficit, opts.maxResources) - currentSize, 0)

\* The number of resources the creation step asks the factory for.
toCreate(currentSize, deficit) ==
  LET requestedSize ==
        Max(opts.minResources, Min(currentSize + deficit, opts.maxResources))
  IN  Max(requestedSize - currentSize, 0)

\* One rejected future of the queue-limit step.
rejectOverLimit(h, id) ==
  settle([h EXCEPT !.hooks.cancelled.MaxQueuedRequestsExceeded = @ + 1,
                   !.hooks.onRequestDequeued = @ + 1],
         id, "MaxOutstandingBorrows", 0)

RECURSIVE rejectAll(_, _)
rejectAll(h, ids) ==
  IF ids = << >> THEN h
  ELSE rejectAll(rejectOverLimit(h, Head(ids)), Tail(ids))

\* The queue-limit step with splice(0, length - maxRequests): the oldest
\* requests are rejected.
limitQueueOldest(h) ==
  LET maxRequests == opts.maxOutstandingBorrows
  IN  IF maxRequests # 0 /\ Len(h.queue) > maxRequests
      THEN rejectAll(
             [h EXCEPT !.queue = spliceRest(@, 0, Len(@) - maxRequests)],
             spliceTaken(h.queue, 0, Len(h.queue) - maxRequests))
      ELSE h

\* The queue-limit step: the futures beyond maxOutstandingBorrows are rejected.
limitQueue(h) ==
  LET maxRequests == opts.maxOutstandingBorrows
  IN  IF maxRequests # 0 /\ Len(h.queue) > maxRequests
      THEN rejectAll(
             [h EXCEPT !.queue = spliceRest(@, maxRequests, Len(@) - maxRequests)],
             spliceTaken(h.queue, maxRequests, Len(h.queue) - maxRequests))
      ELSE h

\* The synchronous part of sync(): the heap it leaves, the factory and
\* destructor calls it has issued, and whether it threw.
syncBody(h) ==
  LET e == expireScan(h, 1, << >>, 0)
  IN  IF e.threw
      THEN [h |-> e.h, creating |-> 0, disposing |-> 0, threw |-> TRUE]
      ELSE LET h1 == [e.h EXCEPT !.avail = e.kept]
           IN  [h |-> limitQueue(h1),
                creating |-> toCreate(Size(h1.known), Len(h1.queue)),
                disposing |-> e.n, threw |-> FALSE]

\* A pass: the promise of one sync() call and of the passes it re-invokes.
\* reset says that .then(() => (this.syncing = undefined)) is chained to it.
FreePass == [st |-> "free", creating |-> 0, disposing |-> 0, reset |-> FALSE]

\* A rejected promise with nothing left in flight is garbage.
settlePass(p) ==
  IF p.st = "failed" /\ p.creating = 0 /\ p.disposing = 0 THEN FreePass ELSE p

PassOf(r, reset) ==
  settlePass([st |-> IF r.threw THEN "failed" ELSE "running",
              creating |-> r.creating, disposing |-> r.disposing,
              reset |-> reset])

\* The promise chains a pool can have pending: the one the constructor's
\* timer starts, which nothing is chained to, and the one whose settling
\* unsets this.syncing.  this.syncing stays set while the latter is pending,
\* so a second one cannot start (see SlotsSuffice).
PassIds == {"start", "chain"}
slotOf(reset) == IF reset THEN "chain" ELSE "start"

\* this.sync() is called on heap h, its promise kept in slot k.
runSync(h, k, reset) ==
  LET r == syncBody(h)
  IN  /\ createCalls + r.creating <= MaxCreates
      /\ createCalls' = createCalls + r.creating
      /\ passes' = [passes EXCEPT ![k] = PassOf(r, reset)]
      /\ observed' = IF r.threw THEN observed ELSE Len(h.calls)
      /\ SetHeap(r.h)

\* this.syncing = this.sync()...
startSync(h, reset) ==
  /\ passes[slotOf(reset)].st = "free"
  /\ runSync(h, slotOf(reset), reset)
  /\ syncing' = TRUE

\* ------------------------------------------------------------- handlers
NewCall == [st |-> "pending", rsc |-> 0, timer |-> FALSE]

\* borrow without its guard.
borrowRefusedNever == FALSE

\* borrow, the guard: the call throws PoolDestroyedError.
borrowRefused == isDestroying

\* borrow, the idle path on heap h for call id: go says what the call does
\* next ("return", "throw" or "enqueue").
borrowIdle(h, id) ==
  IF h.avail = << >> THEN [h |-> h, go |-> "enqueue"]
  ELSE LET rsc == Head(h.avail)
           h1  == [h EXCEPT !.avail = Tail(@)]
           e   == resourceIsExpired(h1, rsc)
       IN  IF e = "unknown"
           THEN [h |-> settle(h1, id, "UnknownResource", 0), go |-> "throw"]
           ELSE IF e = "expired"
           THEN [h |-> removeResource(h1, rsc), go |-> "enqueue"]
           ELSE [h |-> settle([h1 EXCEPT !.hooks.onBorrow = @ + 1],
                              id, "resolved", rsc),
                 go |-> "return"]

\* borrow, the future is queued; t is the timeout of the call (0: none).
borrowEnqueue(h, id, t) ==
  [h EXCEPT !.queue = Append(@, id),
            !.hooks.onRequestEnqueued = @ + 1,
            !.calls[id].timer = (t # 0)]

Borrow(t) ==
  /\ Len(calls) < MaxBorrows
  /\ UNCHANGED << opts, isDestroying, syncTimeout, startTimer, created,
                  removed, destroyCalls, destroyed >>
  /\ LET id == Len(calls) + 1
         h0 == [Heap EXCEPT !.calls = Append(@, NewCall)]
     IN  IF borrowRefused
         THEN /\ SetHeap(settle(h0, id, "PoolDestroyed", 0))
              /\ UNCHANGED << syncing, passes, createCalls, observed >>
         ELSE LET b == borrowIdle(h0, id)
              IN  IF b.go = "enqueue" /\ ~syncing
                  THEN startSync(borrowEnqueue(b.h, id, t), TRUE)
                  ELSE /\ SetHeap(IF b.go = "enqueue"
                                  THEN borrowEnqueue(b.h, id, t) ELSE b.h)
                       /\ UNCHANGED << syncing, passes, createCalls, observed >>

\* The setTimeout callback with splice(0, 1) for splice(idx, 1).
timeoutHandlerHead(h, id) ==
  settle([h EXCEPT !.hooks.cancelled.Timeout = @ + 1,
                   !.hooks.onRequestDequeued = @ + 1,
                   !.queue = spliceRest(@, 0, 1),
                   !.calls[id].timer = FALSE],
         id, "Timeout", 0)

\* The setTimeout callback of a borrow with a timeout.  indexOf never
\* returns undefined, so the branch is always taken.
timeoutHandler(h, id) ==
  LET idx == indexOf(h.queue, id)
      h1  == [h EXCEPT !.hooks.cancelled.Timeout = @ + 1,
                       !.hooks.onRequestDequeued = @ + 1,
                       !.queue = spliceRest(@, idx, 1)]
  IN  settle([h1 EXCEPT !.calls[id].timer = FALSE], id, "Timeout", 0)

\* clearTimeout(tid) is given a tid that is never assigned, so every timer
\* that was set fires.
TimerFire(id) ==
  /\ id \in DOMAIN calls
  /\ calls[id].timer
  /\ SetHeap(timeoutHandler(Heap, id))
  /\ UNCHANGED << opts, isDestroying, syncTimeout, syncing, startTimer, passes,
                  createCalls, created, removed, destroyCalls, destroyed, observed >>

\* The release function of a loan, called once.
Release(id) ==
  /\ id \in DOMAIN calls
  /\ calls[id].st = "resolved"
  /\ LET rsc == calls[id].rsc
         h   == returnResource(Heap, rsc)
     IN  SetHeap([h EXCEPT !.calls[id].st =
                    IF rsc \in DOMAIN knownResources
                    THEN "released" ELSE "releaseFailed"])
  /\ UNCHANGED << opts, isDestroying, syncTimeout, syncing, startTimer, passes,
                  createCalls, created, removed, destroyCalls, destroyed, observed >>

\* The resources a caller has a reference to.
Lent == { calls[i].rsc : i \in DOMAIN calls } \ {0}

Remove(rsc) ==
  /\ rsc \in Lent \ removed
  /\ removed' = removed \cup {rsc}
  /\ SetHeap(removeResource(Heap, rsc))
  /\ UNCHANGED << opts, isDestroying, syncTimeout, syncing, startTimer, passes,
                  createCalls, created, destroyCalls, destroyed, observed >>

\* One rejected future of destroy().
rejectDestroyed(h, id) ==
  settle([h EXCEPT !.hooks.cancelled.Destroyed = @ + 1,
                   !.hooks.onRequestDequeued = @ + 1],
         id, "PoolDestroyed", 0)

RECURSIVE rejectQueue(_, _)
rejectQueue(h, ids) ==
  IF ids = << >> THEN h
  ELSE rejectQueue(rejectDestroyed(h, Head(ids)), Tail(ids))

RECURSIVE drain(_, _)
drain(h, rscs) ==
  IF rscs = << >> THEN h
  ELSE drain(removeResource(h, Head(rscs)), Tail(rscs))

\* destroy() with splice(1, length) for splice(0, length) on the queue.
destroyBodyKeepsHead(h) ==
  LET h1 == rejectQueue([h EXCEPT !.queue = SubSeq(@, 1, Min(1, Len(@)))],
                        SubSeq(h.queue, 2, Len(h.queue)))
  IN  drain([h1 EXCEPT !.avail = << >>], h1.avail)

\* destroy() with slice() for splice(0, length) on the idle resources: they
\* are disposed and stay idle.
destroyBodyKeepsIdle(h) ==
  LET h1 == rejectQueue([h EXCEPT !.queue = << >>], h.queue)
  IN  drain(h1, h1.avail)

\* destroy() draining every known resource instead of the idle ones.
destroyBodyDrainsKnown(h) ==
  LET h1 == rejectQueue([h EXCEPT !.queue = << >>], h.queue)
  IN  drain([h1 EXCEPT !.avail = << >>],
            SelectSeq([i \in 1..MaxCreates |-> i],
                      LAMBDA r : r \in DOMAIN h1.known))

\* destroy(), up to the Promise.all it returns.
destroyBody(h) ==
  LET h1 == rejectQueue([h EXCEPT !.queue = << >>], h.queue)
  IN  drain([h1 EXCEPT !.avail = << >>], h1.avail)

Destroy ==
  /\ Len(destroyCalls) < MaxDestroys
  /\ isDestroying' = TRUE
  /\ syncTimeout' = FALSE
  /\ destroyCalls' = Append(destroyCalls, Len(availableResources))
  /\ destroyed' = destroyed \cup { r \in Resources :
                                      destroyBody(Heap).disp[r] > disposeCalls[r] }
  /\ SetHeap(destroyBody(Heap))
  /\ UNCHANGED << opts, syncing, startTimer, passes, createCalls, created,
                  removed, observed >>

\* A destructor call that destroy() awaits completes.
DestroyDisposeDone(d) ==
  /\ d \in DOMAIN destroyCalls
  /\ destroyCalls[d] > 0
  /\ destroyCalls' = [destroyCalls EXCEPT ![d] = @ - 1]
  /\ UNCHANGED << opts, isDestroying, knownResources, availableResources,
                  outstandingBorrows, syncTimeout, syncing, startTimer, passes,
                  calls, hooks, disposeCalls, createCalls, created,
                  removed, destroyed, observed >>

\* The constructor's setTimeout(() => { this.syncing = this.sync() }, 0).
StartTimerFire ==
  /\ startTimer
  /\ startTimer' = FALSE
  /\ startSync(Heap, FALSE)
  /\ UNCHANGED << opts, isDestroying, syncTimeout, created, removed,
                  destroyCalls, destroyed >>

\* The setInterval callback, when it finds this.syncing unset.
IntervalTick ==
  /\ syncTimeout
  /\ ~syncing
  /\ startSync(Heap, TRUE)
  /\ UNCHANGED << opts, isDestroying, syncTimeout, startTimer, created,
                  removed, destroyCalls, destroyed >>

\* A factory call of pass k delivers a resource: .then((rsc) => addResource(rsc)).
CreateDone(k) ==
  /\ passes[k].creating > 0
  /\ created' = created + 1
  /\ SetHeap(addResource(Heap, created + 1))
  /\ passes' = [passes EXCEPT ![k] = settlePass([@ EXCEPT !.creating = @ - 1])]
  /\ UNCHANGED << opts, isDestroying, syncTimeout, syncing, startTimer,
                  createCalls, removed, destroyCalls, destroyed, observed >>

\* A factory call of pass k fails: Promise.all rejects, the pass with it.
CreateFail(k) ==
  /\ opts.factoryFails
  /\ passes[k].creating > 0
  /\ passes' = [passes EXCEPT ![k] =
                  settlePass([@ EXCEPT !.creating = @ - 1, !.st = "failed"])]
  /\ UNCHANGED << opts, isDestroying, knownResources, availableResources,
                  outstandingBorrows, syncTimeout, syncing, startTimer,
                  calls, hooks, disposeCalls, createCalls, created, removed,
                  destroyCalls, destroyed, observed >>

\* A destructor call of the expiry step of pass k completes.
DisposeDone(k) ==
  /\ passes[k].disposing > 0
  /\ passes' = [passes EXCEPT ![k] = settlePass([@ EXCEPT !.disposing = @ - 1])]
  /\ UNCHANGED << opts, isDestroying, knownResources, availableResources,
                  outstandingBorrows, syncTimeout, syncing, startTimer,
                  calls, hooks, disposeCalls, createCalls, created, removed,
                  destroyCalls, destroyed, observed >>

\* The pass must sync again: the condition of the Promise.all continuation.
syncAgain(h) == Len(h.queue) > 0 /\ Size(h.known) < opts.maxResources

\* Promise.all(promises).then(...) of pass k runs.
PassDone(k) ==
  /\ passes[k].st = "running"
  /\ passes[k].creating = 0
  /\ passes[k].disposing = 0
  /\ IF syncAgain(Heap)
     THEN runSync(Heap, k, passes[k].reset)
     ELSE /\ passes' = [passes EXCEPT ![k] =
                          IF @.reset THEN [@ EXCEPT !.st = "resolved"]
                          ELSE FreePass]
          /\ UNCHANGED << knownResources, availableResources,
                          outstandingBorrows, calls, hooks, disposeCalls,
                          createCalls, observed >>
  /\ UNCHANGED << opts, isDestroying, syncTimeout, syncing, startTimer,
                  created, removed, destroyCalls, destroyed >>

\* .then(() => (this.syncing = undefined)) of a resolved pass runs.
ResetSyncing(k) ==
  /\ passes[k].st = "resolved"
  /\ syncing' = FALSE
  /\ passes' = [passes EXCEPT ![k] = FreePass]
  /\ UNCHANGED << opts, isDestroying, knownResources, availableResources,
                  outstandingBorrows, syncTimeout, startTimer, calls,
                  hooks, disposeCalls, createCalls, created, removed,
                  destroyCalls, destroyed, observed >>

\* Date.now() advances by one.  The code reads the clock only as the age
\* Date.now() - info.created of a known resource, and only to compare it with
\* resourceMaxAge, so the ages are kept instead of the clock and an age stops
\* growing once it is beyond resourceMaxAge.
older(age) == Min(age + 1, opts.resourceMaxAge + 1)

Tick ==
  /\ opts.resourceMaxAge # 0
  /\ \E r \in DOMAIN knownResources : older(knownResources[r]) # knownResources[r]
  /\ knownResources' = [r \in DOMAIN knownResources |-> older(knownResources[r])]
  /\ UNCHANGED << opts, isDestroying, availableResources,
                  outstandingBorrows, syncTimeout, syncing, startTimer, passes,
                  calls, hooks, disposeCalls, createCalls, created, removed,
                  destroyCalls, destroyed, observed >>

\* ---------------------------------------------------------- the machine
\* new Pool(opts): lines 437-462.
Init ==
  /\ opts \in OptionSets
  /\ isDestroying = FALSE
  /\ knownResources = << >>
  /\ availableResources = << >>
  /\ outstandingBorrows = << >>
  /\ syncTimeout = (opts.syncInterval # 0)
  /\ syncing = FALSE
  /\ startTimer = TRUE
  /\ passes = [k \in PassIds |-> FreePass]
  /\ calls = << >>
  /\ hooks = [onBorrow |-> 0, onRelease |-> 0, onRequestEnqueued |-> 0,
              onRequestDequeued |-> 0,
              cancelled |-> [Destroyed |-> 0, MaxQueuedRequestsExceeded |-> 0,
                             Timeout |-> 0]]
  /\ disposeCalls = [r \in Resources |-> 0]
  /\ createCalls = 0
  /\ created = 0
  /\ removed = {}
  /\ destroyCalls = << >>
  /\ destroyed = {}
  /\ observed = 0

Next ==
  \/ \E t \in {0, 1} : Borrow(t)
  \/ \E id \in CallIds : TimerFire(id)
  \/ \E id \in CallIds : Release(id)
  \/ \E rsc \in Resources : Remove(rsc)
  \/ Destroy
  \/ \E d \in 1..MaxDestroys : DestroyDisposeDone(d)
  \/ StartTimerFire
  \/ IntervalTick
  \/ \E k \in PassIds : CreateDone(k)
  \/ \E k \in PassIds : CreateFail(k)
  \/ \E k \in PassIds : DisposeDone(k)
  \/ \E k \in PassIds : PassDone(k)
  \/ \E k \in PassIds : ResetSyncing(k)
  \/ Tick

Spec == Init /\ [][Next]_vars

\* No sync() call is left out for want of a slot.
SlotsSuffice ==
  /\ ~syncing => passes["chain"].st = "free"
  /\ startTimer => passes["start"].st = "free"

\* ------------------------------------------------------------ properties
Range(s) == { s[i] : i \in DOMAIN s }

\* The borrow calls that hold a loan: fulfilled and not yet released.
Loans == { id \in DOMAIN calls : calls[id].st = "resolved" }

\* The borrow calls that are still pending for their caller.
Pending == { id \in DOMAIN calls : calls[id].st = "pending" }

CreationsInFlight == \E k \in PassIds : passes[k].creating > 0

\* C1: whenever no sync pass has a factory call in flight, the pool knows at
\* most maxResources resources.
C1_KnownWithinMax ==
  ~CreationsInFlight => Size(knownResources) <= opts.maxResources

\* C2: no resource is idle and on loan at once, and no two outstanding loans
\* hold the same resource.
C2_LoansExclusive ==
  /\ \A a \in Loans : calls[a].rsc \notin Range(availableResources)
  /\ \A a, b \in Loans : a # b => calls[a].rsc # calls[b].rsc

C2_TwoLoans == Cardinality(Loans) = 2

\* The queue holds the requests in the order the borrows were made.
QueueInOrder ==
  \A i, j \in DOMAIN outstandingBorrows :
    i < j => outstandingBorrows[i] < outstandingBorrows[j]

\* C3: a waiting request that is fulfilled is the head of the queue, and the
\* queue is in the order of enqueueing: no request is fulfilled while one
\* enqueued before it still waits.
C3_FifoFulfilment ==
  [][ /\ QueueInOrder'
      /\ \A id \in DOMAIN calls :
           calls[id].st = "pending" /\ calls'[id].st = "resolved"
             => /\ outstandingBorrows # << >>
                /\ id = Head(outstandingBorrows)
                /\ \A j \in Range(outstandingBorrows) : id <= j ]_vars

C3_TwoServedInTurn ==
  /\ Len(calls) = 2
  /\ \A id \in DOMAIN calls : calls[id].st = "resolved"
  /\ hooks.onRequestEnqueued = 2
  /\ hooks.onRequestDequeued = 2

\* C4: on an active pool with a succeeding factory, a request that waits
\* while the pool is below maxResources has a sync pass working for it (one
\* is running, or the construction-time pass is still to come): a borrow that
\* is enqueued triggers a pass, so that it is eventually fulfilled.
C4_WaitingRequestHasPass ==
  ( /\ ~isDestroying
    /\ ~opts.factoryFails
    /\ outstandingBorrows # << >>
    /\ Size(knownResources) < opts.maxResources )
  => \/ startTimer
     \/ \E k \in PassIds : passes[k].st = "running"

\* C5: a timer that fires for a request that is still queued removes exactly
\* that request, fires one Timeout cancellation and one dequeue notification,
\* and fails the borrow with Timeout.
C5_TimeoutRemovesOwnRequest ==
  [][ \A id \in DOMAIN calls :
        calls[id].timer /\ ~calls'[id].timer /\ id \in Range(outstandingBorrows)
          => /\ outstandingBorrows' =
                  SelectSeq(outstandingBorrows, LAMBDA x : x # id)
             /\ Len(outstandingBorrows') = Len(outstandingBorrows) - 1
             /\ hooks'.cancelled =
                  [hooks.cancelled EXCEPT !.Timeout = @ + 1]
             /\ hooks'.onRequestDequeued = hooks.onRequestDequeued + 1
             /\ calls'[id].st = "Timeout" ]_vars

C5_TimedOutBesideWaiter ==
  /\ Len(calls) = 2
  /\ calls[2].st = "Timeout"
  /\ outstandingBorrows = << 1 >>
  /\ hooks.onRequestEnqueued = 2
  /\ hooks.onRequestDequeued = 1
  /\ hooks.cancelled.Timeout = 1

\* C6: the timer of a request that has already completed does nothing: it
\* removes no request from the queue and fires no notification.
C6_StaleTimerInert ==
  [][ \A id \in DOMAIN calls :
        calls[id].timer /\ ~calls'[id].timer /\ calls[id].st # "pending"
          => outstandingBorrows' = outstandingBorrows /\ hooks' = hooks ]_vars

\* C7: a request is in the queue exactly when its borrow is still pending, so
\* the outstanding-borrows count is the number of pending borrows.
C7_QueuedIffPending ==
  /\ Range(outstandingBorrows) = Pending
  /\ Len(outstandingBorrows) = Cardinality(Pending)

\* C8: destroy() rejects every queued request with PoolDestroyed, with one
\* Destroyed cancellation and one dequeue notification each, and empties the
\* queue; a request it rejected never waits for a resource again.
C8_DestroyRejectsQueue ==
  [][ /\ Len(destroyCalls') > Len(destroyCalls)
        => /\ outstandingBorrows' = << >>
           /\ \A id \in Range(outstandingBorrows) :
                calls'[id].st = "PoolDestroyed"
           /\ hooks'.cancelled =
                [hooks.cancelled EXCEPT
                   !.Destroyed = @ + Len(outstandingBorrows)]
           /\ hooks'.onRequestDequeued =
                hooks.onRequestDequeued + Len(outstandingBorrows)
      /\ \A id \in DOMAIN calls :
           calls[id].st = "PoolDestroyed"
             => /\ calls'[id].st = "PoolDestroyed"
                /\ id \notin Range(outstandingBorrows') ]_vars

C8_LateCreationAfterDestroy ==
  /\ isDestroying
  /\ hooks.cancelled.Destroyed = 2
  /\ hooks.onRelease = 0
  /\ availableResources # << >>

\* C9: a borrow on a destroyed pool fails with PoolDestroyed and changes
\* nothing else.
C9_BorrowAfterDestroy ==
  [][ isDestroying /\ Len(calls') > Len(calls)
        => /\ calls' = Append(calls, [NewCall EXCEPT !.st = "PoolDestroyed"])
           /\ UNCHANGED << opts, isDestroying, knownResources,
                           availableResources, outstandingBorrows, syncTimeout,
                           syncing, startTimer, passes, hooks, disposeCalls,
                           createCalls, created, removed, destroyCalls, destroyed, observed >> ]_vars

C9_RefusedBesideIdle ==
  /\ isDestroying
  /\ availableResources # << >>
  /\ calls # << >>
  /\ calls[Len(calls)].st = "PoolDestroyed"
  /\ hooks.cancelled.Destroyed = 0

\* C10: once the pool is being destroyed the factory is not invoked again.
C10_NoCreateAfterDestroy ==
  [][ isDestroying => createCalls' = createCalls ]_vars

RECURSIVE SumTo(_, _)
SumTo(f, n) == IF n = 0 THEN 0 ELSE f[n] + SumTo(f, n - 1)

\* The destructor invocations made so far, over all resources.
Disposals == SumTo(disposeCalls, MaxCreates)

\* Nothing of the pool is in flight: no timer of the constructor, no sync
\* pass, no destructor call a destroy() awaits.
Settled ==
  /\ ~startTimer
  /\ \A k \in PassIds : passes[k].st \in {"free", "resolved"}
  /\ \A d \in DOMAIN destroyCalls : destroyCalls[d] = 0

\* C11: when destroy() was called on a pool none of whose resources was ever
\* lent or removed, then once the destroy() and everything else in flight has
\* completed, every resource the pool created has been disposed: there are as
\* many disposals as creations.  (Stated for pools without a minimum, where
\* the factory is not called once the pool is being destroyed.)
C11_DestroyDisposesAll ==
  ( /\ isDestroying
    /\ Settled
    /\ opts.minResources = 0
    /\ hooks.onBorrow = 0
    /\ removed = {} )
  => Disposals = created

\* The pool holds maxResources resources and all of them are on loan.
AtCap ==
  /\ Size(knownResources) = opts.maxResources
  /\ DOMAIN knownResources = { calls[a].rsc : a \in Loans }

\* One step of a pool at its cap, as C12 has it.
WaitsAtCapForRelease ==
  AtCap /\ opts.maxOutstandingBorrows = 0 =>
    /\ createCalls' = createCalls
    /\ \A id \in Range(outstandingBorrows) \cap Pending :
         \/ /\ hooks'.onRelease = hooks.onRelease
            /\ \/ id \in Range(outstandingBorrows') /\ calls'[id].st = "pending"
               \/ isDestroying'
               \/ calls[id].timer /\ ~calls'[id].timer
         \/ /\ hooks'.onRelease = hooks.onRelease + 1
            /\ \E a \in Loans :
                 /\ calls'[a].st = "released"
                 /\ \/ resourceIsExpired(Heap, calls[a].rsc) = "expired"
                    \/ id # Head(outstandingBorrows)
                    \/ /\ calls'[id].st = "resolved"
                       /\ calls'[id].rsc = calls[a].rsc

\* C12: while maxResources resources are all on loan, no step calls the
\* factory, and a request that waits keeps waiting in the queue unless a loan
\* is released (or the request is cancelled: its own timer fires, the pool is
\* destroyed); the release of a loan that has not expired resolves the oldest
\* waiting request with exactly the resource released.
C12_WaitsAtCapForRelease == [][WaitsAtCapForRelease]_vars

\* The release of loan a, whose resource is known and has not expired.
ReleasesFresh(a) ==
  /\ a \in Loans
  /\ calls'[a].st = "released"
  /\ resourceIsExpired(Heap, calls[a].rsc) = "fresh"

\* The release hands the resource to the oldest waiting request, if there is
\* one, and else appends it to the idle resources.
ReleaseLendsOrParks ==
  \A a \in DOMAIN calls : ReleasesFresh(a) =>
    LET rsc == calls[a].rsc
    IN  IF outstandingBorrows # << >>
        THEN /\ outstandingBorrows' = Tail(outstandingBorrows)
             /\ calls'[Head(outstandingBorrows)] =
                  [calls[Head(outstandingBorrows)] EXCEPT
                     !.st = "resolved", !.rsc = rsc]
             /\ availableResources' = availableResources
             /\ hooks' = [hooks EXCEPT !.onRelease = @ + 1, !.onBorrow = @ + 1,
                                       !.onRequestDequeued = @ + 1]
        ELSE /\ outstandingBorrows' = << >>
             /\ availableResources' = Append(availableResources, rsc)
             /\ hooks' = [hooks EXCEPT !.onRelease = @ + 1]

\* A borrow on an active pool whose oldest idle resource is known and has not
\* expired returns that resource at once: nothing is queued, no factory call.
BorrowTakesOldestIdle ==
  ( /\ Len(calls') > Len(calls)
    /\ ~isDestroying
    /\ availableResources # << >>
    /\ resourceIsExpired(Heap, Head(availableResources)) = "fresh" )
  => /\ calls' = Append(calls, [NewCall EXCEPT
                                  !.st = "resolved",
                                  !.rsc = Head(availableResources)])
     /\ availableResources' = Tail(availableResources)
     /\ hooks' = [hooks EXCEPT !.onBorrow = @ + 1]
     /\ UNCHANGED << outstandingBorrows, createCalls, passes, syncing >>

\* C13 (amended): releasing a known, non-expired resource hands it at once to
\* the oldest waiting request if there is one (the request leaves the queue,
\* one onBorrow and one onRequestDequeued fire) and otherwise appends it to
\* the idle resources; a borrow that finds idle resources returns the oldest
\* of them immediately, without enqueuing and without a factory call.
C13_ReleaseLendsOrParks == [][ReleaseLendsOrParks /\ BorrowTakesOldestIdle]_vars

\* C13 (as stated): a resource released to the idle resources is the one the
\* next borrow returns, that is, the oldest idle resource after the release.
C13_NextBorrowGetsReleased ==
  [][ \A a \in DOMAIN calls :
        ReleasesFresh(a) /\ outstandingBorrows = << >>
          => Head(availableResources') = calls[a].rsc ]_vars

\* A resource was released to the idle resources and borrowed again at once.
C13_ReusedAfterRelease ==
  /\ Len(calls) = 2
  /\ calls[1].st = "released"
  /\ calls[2].st = "resolved"
  /\ calls[2].rsc = calls[1].rsc
  /\ hooks.onRequestEnqueued = 1
  /\ hooks.onBorrow = 2
  /\ createCalls = 1

\* C14: the release function of a loan whose resource the pool does not know
\* fails with UnknownResource and changes nothing: the resource is neither
\* idle nor lent afterwards, and no notification fires.
C14_UnknownReleaseChangesNothing ==
  [][ \A a \in Loans :
        calls[a].rsc \notin DOMAIN knownResources /\ calls'[a].st # "resolved"
          => /\ calls' = [calls EXCEPT ![a].st = "releaseFailed"]
             /\ UNCHANGED << opts, isDestroying, knownResources,
                             availableResources, outstandingBorrows,
                             syncTimeout, syncing, startTimer, passes, hooks,
                             disposeCalls, createCalls, created, removed,
                             destroyCalls, destroyed, observed >> ]_vars

\* A release failed for a resource removed while on loan, beside a request
\* that keeps waiting.
C14_FailedReleaseBesideWaiter ==
  /\ Len(calls) = 2
  /\ calls[1].st = "releaseFailed"
  /\ calls[1].rsc \in removed
  /\ outstandingBorrows = << 2 >>
  /\ calls[2].st = "pending"
  /\ availableResources = << >>
  /\ hooks.onRelease = 0

\* C15: the release of a loan whose resource is older than resourceMaxAge
\* removes the resource from the known resources and invokes the destructor
\* on it; the resource is not appended to the idle resources and no waiting
\* request gets it, whether or not requests wait.
C15_ExpiredReleaseDisposes ==
  [][ \A a \in Loans :
        /\ calls'[a].st = "released"
        /\ resourceIsExpired(Heap, calls[a].rsc) = "expired"
        => LET rsc == calls[a].rsc
           IN  /\ rsc \notin DOMAIN knownResources'
               /\ DOMAIN knownResources' = DOMAIN knownResources \ {rsc}
               /\ disposeCalls' = [disposeCalls EXCEPT ![rsc] = @ + 1]
               /\ availableResources' = availableResources
               /\ outstandingBorrows' = outstandingBorrows
               /\ calls' = [calls EXCEPT ![a].st = "released"]
               /\ hooks' = [hooks EXCEPT !.onRelease = @ + 1] ]_vars

\* An aged-out resource was released and disposed while a request waited.
C15_DisposedBesideWaiter ==
  /\ Len(calls) = 2
  /\ calls[1].st = "released"
  /\ calls[1].rsc \notin DOMAIN knownResources
  /\ calls[1].rsc \notin removed
  /\ disposeCalls[calls[1].rsc] = 1
  /\ outstandingBorrows = << 2 >>
  /\ calls[2].st = "pending"
  /\ availableResources = << >>

\* C16: remove(r) on an idle resource r removes r from the known and from the
\* idle resources and invokes the destructor on it.
C16_RemoveIdleEvicts ==
  [][ \A r \in Range(availableResources) :
        r \in removed' /\ r \notin removed
          => /\ r \notin DOMAIN knownResources'
             /\ disposeCalls'[r] = disposeCalls[r] + 1
             /\ r \notin Range(availableResources') ]_vars

\* C17: every idle resource is a known resource.
C17_IdleAreKnown == Range(availableResources) \subseteq DOMAIN knownResources

\* C18: on an active pool on which borrow was never called, once the pass the
\* constructor's timer starts has completed and no factory call is pending,
\* exactly minResources resources have been created, all of them are known
\* and idle, and no request waits.
C18_MinResourcesAfterStart ==
  ( /\ calls = << >>
    /\ ~isDestroying
    /\ ~startTimer
    /\ passes["start"].st = "free"
    /\ ~CreationsInFlight
    /\ ~opts.factoryFails )
  => /\ created = opts.minResources
     /\ DOMAIN knownResources = 1..opts.minResources
     /\ Len(availableResources) = opts.minResources
     /\ Range(availableResources) = DOMAIN knownResources
     /\ outstandingBorrows = << >>

\* C19: with maxOutstandingBorrows set, whenever no sync pass is in flight (and
\* none is still to be started by the constructor's timer) the queue holds at
\* most maxOutstandingBorrows requests.
C19_QueueWithinLimit ==
  ( /\ opts.maxOutstandingBorrows # 0
    /\ ~startTimer
    /\ \A k \in PassIds : passes[k].st = "free" )
  => Len(outstandingBorrows) <= opts.maxOutstandingBorrows

\* A step in which sync() is called: this.syncing gets set, the constructor's
\* timer fires, or (a pass that syncs again has a deficit to fill) the factory
\* is called.
SyncStep ==
  \/ ~syncing /\ syncing'
  \/ startTimer /\ ~startTimer'
  \/ createCalls' > createCalls

\* The queue a sync pass finds: a borrow that starts the pass has queued its
\* own request before.
QueueFound ==
  IF Len(calls') > Len(calls)
  THEN Append(outstandingBorrows, Len(calls'))
  ELSE outstandingBorrows

\* C20: a sync pass that finds more than maxOutstandingBorrows requests queued
\* rejects exactly the newest ones beyond that number, each with
\* MaxOutstandingBorrowsExceeded, one MaxQueuedRequestsExceeded cancellation
\* and one dequeue notification; the oldest maxOutstandingBorrows requests
\* stay queued in their order.  No other step rejects a request so.
C20_PassRejectsNewest ==
  [][ LET N    == opts.maxOutstandingBorrows
          q    == QueueFound
          over == Max(Len(q) - N, 0)
      IN  /\ SyncStep /\ N # 0 =>
               /\ outstandingBorrows' = SubSeq(q, 1, Len(q) - over)
               /\ \A i \in 1..Len(q) :
                    IF i > N
                    THEN calls'[q[i]].st = "MaxOutstandingBorrows"
                    ELSE calls'[q[i]].st = "pending"
               /\ hooks'.cancelled =
                    [hooks.cancelled EXCEPT
                       !.MaxQueuedRequestsExceeded = @ + over]
               /\ hooks'.onRequestDequeued = hooks.onRequestDequeued + over
          /\ ~SyncStep =>
               /\ hooks'.cancelled.MaxQueuedRequestsExceeded =
                    hooks.cancelled.MaxQueuedRequestsExceeded
               /\ \A id \in DOMAIN calls :
                    calls'[id].st = "MaxOutstandingBorrows"
                      => calls[id].st = "MaxOutstandingBorrows" ]_vars

\* A pass rejected the newer of two queued requests and kept the older.
C20_NewestRejected ==
  /\ opts.maxOutstandingBorrows = 1
  /\ Len(calls) = 2
  /\ calls[2].st = "MaxOutstandingBorrows"
  /\ calls[1].st = "pending"
  /\ outstandingBorrows = << 1 >>
  /\ hooks.cancelled.MaxQueuedRequestsExceeded = 1
  /\ hooks.onRequestDequeued = 1

\* C21: a resource on which a destroy() call has invoked the destructor is
\* never idle again, so a later destroy() call, which disposes exactly the
\* idle resources, does not dispose it a second time, whatever is released
\* or created between the calls.
C21_DestroyedNotIdleAgain ==
  Range(availableResources) \cap destroyed = {}

\* Two destroy() calls, each of which disposed one resource.
C21_TwoDestroysOneEach ==
  /\ destroyCalls = << 1, 1 >>
  /\ destroyed = {1, 2}
  /\ \A r \in Resources : disposeCalls[r] = 1

\* C22: the enqueue notifications minus the dequeue notifications are the
\* requests in the queue.
C22_HooksBalanceQueue ==
  hooks.onRequestEnqueued - hooks.onRequestDequeued = Len(outstandingBorrows)

\* The passes that await a factory or destructor completion.
PassesAwaiting ==
  { k \in PassIds : passes[k].creating > 0 \/ passes[k].disposing > 0 }

\* C23: at most one sync pass is in flight at any time.
C23_OnePassInFlight == Cardinality(PassesAwaiting) <= 1

\* Pass k completes in this step without syncing again.
PassEnds(k) ==
  /\ passes[k].st = "running"
  /\ passes[k].creating = 0
  /\ passes[k].disposing = 0
  /\ passes'[k].st \in {"resolved", "free"}

\* C24: a request that was enqueued while a pass was running (no sync() call
\* has read the queue since its borrow) is not left behind when the pass
\* completes: the pass syncs again instead of ending.
C24_FollowUpPassForLateRequest ==
  [][ \A k \in PassIds :
        PassEnds(k) => \A id \in Range(outstandingBorrows) : id <= observed ]_vars

\* x clamped to the interval lo..hi (lo <= hi).
clamp(x, lo, hi) == IF x < lo THEN lo ELSE IF x > hi THEN hi ELSE x

ExpiredIdle ==
  { r \in Range(availableResources) :
      resourceIsExpired(Heap, r) = "expired" }

C27_BorrowRetriesAfterExpired ==
  [][ ( /\ Len(calls') > Len(calls)
        /\ ~isDestroying
        /\ Len(availableResources) >= 2
        /\ resourceIsExpired(Heap, availableResources[1]) = "expired"
        /\ resourceIsExpired(Heap, availableResources[2]) = "fresh" )
      => /\ calls'[Len(calls')].st = "resolved"
         /\ calls'[Len(calls')].rsc = availableResources[2]
         /\ outstandingBorrows' = outstandingBorrows
         /\ hooks'.onRequestEnqueued = hooks.onRequestEnqueued ]_vars

\* A known resource whose age is exactly resourceMaxAge.
AtLimit(r) ==
  /\ opts.resourceMaxAge # 0
  /\ r \in DOMAIN knownResources
  /\ knownResources[r] = opts.resourceMaxAge

\* The three decision points meeting a resource r at the limit: a borrow
\* that pops r, a pass that examines the idle r, the release of a loan of r.
BorrowPops(r) ==
  /\ Len(calls') > Len(calls)
  /\ ~isDestroying
  /\ availableResources # << >>
  /\ Head(availableResources) = r

PassExamines(r) ==
  /\ SyncStep
  /\ Range(availableResources) \subseteq DOMAIN knownResources
  /\ r \in Range(availableResources)
  /\ ~BorrowPops(r)

ReleaseOf(r) ==
  \E a \in Loans : calls[a].rsc = r /\ calls'[a].st = "released"

\* C28 (amended): the threshold is exclusive.  A resource whose age is exactly
\* resourceMaxAge is not expired at any of the three decision points: the
\* borrow that pops it returns it, the pass that examines it leaves it idle,
\* its release lends or parks it; it stays known and is not disposed.
C28_AtLimitNotExpired ==
  [][ \A r \in Resources : AtLimit(r) =>
        /\ BorrowPops(r) =>
             /\ calls'[Len(calls')].st = "resolved"
             /\ calls'[Len(calls')].rsc = r
        /\ PassExamines(r) => r \in Range(availableResources')
        /\ ReleaseOf(r) =>
             \/ r \in Range(availableResources')
             \/ \E id \in Pending : calls'[id].st = "resolved" /\ calls'[id].rsc = r
        /\ BorrowPops(r) \/ PassExamines(r) \/ ReleaseOf(r) =>
             /\ r \in DOMAIN knownResources'
             /\ disposeCalls'[r] = disposeCalls[r] ]_vars

\* C28 (as stated): the threshold is inclusive.  A resource whose age is
\* exactly resourceMaxAge is disposed, and neither lent nor left idle, at
\* each of the three decision points.
C28_AtLimitExpired ==
  [][ \A r \in Resources :
        AtLimit(r) /\ (BorrowPops(r) \/ PassExamines(r) \/ ReleaseOf(r)) =>
          /\ r \notin DOMAIN knownResources'
          /\ disposeCalls'[r] = disposeCalls[r] + 1
          /\ r \notin Range(availableResources')
          /\ \A id \in DOMAIN calls' :
               ~(id \notin Loans /\ calls'[id].st = "resolved"
                                 /\ calls'[id].rsc = r) ]_vars

\* A resource was released at exactly resourceMaxAge and parked behind a
\* resource created since the clock last advanced.
C28_ReleasedAtLimitParked ==
  /\ opts.resourceMaxAge = 1
  /\ availableResources = << 2, 1 >>
  /\ DOMAIN knownResources = {1, 2}
  /\ knownResources[1] = 1
  /\ knownResources[2] = 0
  /\ \A r \in Resources : disposeCalls[r] = 0

\* The factory calls that have failed: those made that neither delivered a
\* resource nor are still in flight.
FailedCreations ==
  createCalls - created - passes["start"].creating - passes["chain"].creating

\* A borrow call enqueues its request in this step.
BorrowEnqueues ==
  /\ Len(calls') > Len(calls)
  /\ Len(calls') \in Range(outstandingBorrows')

\* C29: a factory failure does not disable the pool.  Once a factory call of
\* a pass has failed and the pass is over, the next borrow that enqueues a
\* request on the active pool, with room for a resource, starts a new pass
\* that calls the factory again.  (The constructor's timer has not fired, so
\* this.syncing has been assigned by the failed pass only.)
C29_BorrowRetriesAfterFailure ==
  [][ ( /\ FailedCreations > 0
        /\ \A k \in PassIds : passes[k].st = "free"
        /\ startTimer
        /\ ~isDestroying
        /\ Size(knownResources) < opts.maxResources
        /\ BorrowEnqueues )
      => createCalls' > createCalls ]_vars

\* A remove() call, or the release of an aged-out resource, takes a resource
\* out of the known set in this step.
DeficitStep ==
  /\ Size(knownResources') < Size(knownResources)
  /\ \/ removed' # removed
     \/ \E a \in Loans : /\ calls'[a].st = "released"
                         /\ calls[a].rsc \notin DOMAIN knownResources'

\* What can still call sync() without a further borrow call: the timer of
\* the constructor, the interval, the continuation of a pass in flight.
SyncPending ==
  \/ startTimer
  \/ syncTimeout
  \/ \E k \in PassIds : passes[k].st = "running"

\* C30: a deficit caused by a return or a remove is corrected by a subsequent
\* sync.  When the release of an aged-out resource or a remove() call leaves
\* the active pool with fewer than maxResources resources while requests
\* wait, or with fewer than minResources, a sync() call is still to come
\* without a further borrow call.
C30_DeficitGetsSync ==
  [][ ( /\ DeficitStep
        /\ ~isDestroying
        /\ \/ /\ outstandingBorrows' # << >>
              /\ Size(knownResources') < opts.maxResources
           \/ Size(knownResources') < opts.minResources )
      => SyncPending' ]_vars

\* C31: with syncInterval configured on an active pool, an interval tick that
\* finds no pass in flight starts a pass.  Once the constructor's timer has
\* fired and no pass is in flight, this.syncing is unset, so that the tick's
\* test if (!this.syncing) lets it call sync(); in particular when the pool
\* holds fewer than minResources resources.
C31_TickStartsPass ==
  ( /\ syncTimeout
    /\ ~isDestroying
    /\ ~startTimer
    /\ \A k \in PassIds : passes[k].st = "free"
    /\ Size(knownResources) < opts.minResources )
  => ~syncing

\* The destructor is invoked in this step on the resource of loan a, which
\* stays on loan and is not the argument of a remove() call.
DisposedOnLoan(a) ==
  LET r == calls[a].rsc
  IN  /\ disposeCalls'[r] > disposeCalls[r]
      /\ calls'[a].st = "resolved"
      /\ r \notin removed' \ removed

\* C32: the pool never invokes the destructor on a resource that is on loan,
\* except through an explicit remove(): no step other than the remove() of
\* that resource or its own release (the expiry step of a pass, destroy(),
\* the idle path of borrow among them) disposes the resource of a loan.
C32_LoanedNotDisposed ==
  [][ \A a \in Loans : ~DisposedOnLoan(a) ]_vars

\* destroy() has disposed an idle resource while another resource, which is
\* still known and was never disposed, is on loan.
C32_DestroySparesLoan ==
  /\ isDestroying
  /\ destroyed # {}
  /\ \E a \in Loans : /\ calls[a].rsc \in DOMAIN knownResources
                      /\ calls[a].rsc \notin destroyed
                      /\ disposeCalls[calls[a].rsc] = 0

\* Resource r is lent in this step: a borrow call comes to hold it.
LentNow(r) ==
  \E id \in DOMAIN calls' :
    /\ calls'[id].st = "resolved"
    /\ calls'[id].rsc = r
    /\ id \notin Loans

\* No resource that remove() was called on is idle, in this step: the
\* remove() of an idle resource, which leaves it idle, plays no part.
NoRemovedIdle ==
  \A q \in removed' :
    q \notin Range(availableResources) \cup Range(availableResources')

\* C33: Disposed is a terminal state of a resource.  A resource on which the
\* destructor has been invoked is not idle, is not lent from then on, and the
\* destructor is not invoked on it a second time (remove() is called at most
\* once per resource, and here never on an idle one).
C33_DisposedIsTerminal ==
  [][ NoRemovedIdle =>
        \A r \in Resources :
          /\ disposeCalls'[r] > 0 => r \notin Range(availableResources')
          /\ disposeCalls[r] > 0 =>
               /\ disposeCalls'[r] = disposeCalls[r]
               /\ ~LentNow(r) ]_vars

\* C34: no borrower overtakes a waiting request: the queue of waiting
\* requests and the idle resources are never both non-empty.
C34_NoWaiterBesideIdle ==
  ~(outstandingBorrows # << >> /\ availableResources # << >>)

\* C35: once destroy() has been called no resource is idle: neither a resource
\* whose factory call completes after destroy() nor a loan released after
\* destroy() is parked in the idle list of the destroyed pool.
C35_NoIdleAfterDestroy ==
  isDestroying => availableResources = << >>

====
